---- MODULE Spec2Model ----
(***************************************************************************)
(* Dijkstra's algorithm over an adjacency-list graph with a binary heap    *)
(* (src/task_3_dijkstra_heap.py): Graph.add_edge, Graph.dijkstra,          *)
(* Graph.reconstruct_path and demo_graph.                                  *)
(*                                                                         *)
(* Vertices are positive integers (the demo's "A".."E" are 1..5, which     *)
(* keeps the order Python uses when two heap tuples tie on the distance).  *)
(* Weights are integers; a distance is a record so that float('inf') is a  *)
(* value of its own and not a large number.                                *)
(***************************************************************************)
EXTENDS Integers, Sequences, FiniteSets, TLC

\* ------------------------------------------------------------------ bounds
NumVertices == 3        \* vertex identifiers the callers draw from: 1..NumVertices
MaxWeight == 2          \* accepted weights the callers draw from: 0..MaxWeight
MaxEntries == 3         \* add_edge is called while the graph stores at most this many entries
MaxCalls == 2           \* dijkstra is called at most this often on one graph

Vertices == 1..NumVertices
Weights == (-1)..MaxWeight

\* ------------------------------------------------------- values of the code
\* Python's None as a predecessor: no vertex is 0.
None == 0

\* float('inf') and finite floats.
Inf == [inf |-> TRUE, val |-> 0]
Fin(n) == [inf |-> FALSE, val |-> n]

\* float(w) of an integer weight: the same number (exact below 2^53).
Float(w) == w

\* a < b on floats, +infinity included.
DLess(a, b) == ~a.inf /\ (b.inf \/ a.val < b.val)

\* d + w for a float d and a finite weight w.
DAdd(d, w) == IF d.inf THEN Inf ELSE Fin(d.val + w)

\* The empty defaultdict(list) / an empty dict: the function with no keys.
EmptyMap == <<>>

\* Tuple comparison (d1, v1) < (d2, v2) of heap entries.
TupleLess(a, b) == DLess(a[1], b[1]) \/ (a[1] = b[1] /\ a[2] < b[2])

\* Faulty variant of HeapPush: a plain queue, the new entry goes last
\* (heap.append for heapq.heappush).
HeapPushLast(h, e) == Append(h, e)

\* heapq.heappush: the heap as the sequence of its entries in pop order.
RECURSIVE HeapPush(_, _)
HeapPush(h, e) ==
    IF h = <<>> THEN <<e>>
    ELSE IF TupleLess(e, Head(h)) THEN <<e>> \o h
    ELSE <<Head(h)>> \o HeapPush(Tail(h), e)

\* Faulty variant of HeapPop: the smallest entry is read and left on the heap
\* (heap[0] for heapq.heappop(heap)).
HeapPeek(h) == [item |-> Head(h), heap |-> h]

\* heapq.heappop (line 69): the smallest entry and the heap without it.
HeapPop(h) == [item |-> Head(h), heap |-> Tail(h)]

\* ------------------------------------------------------------------ Graph
\* self.adj[k] on the defaultdict: a missing key is created with [].
Touch(g, k) == IF k \in DOMAIN g THEN g ELSE g @@ (k :> <<>>)

\* self.adj[k].append(e)
AppendTo(g, k, e) == [Touch(g, k) EXCEPT ![k] = Append(@, e)]

\* Faulty variant of EnsureKey: lines 46-47 left out, v is not made a key.
EnsureKeyDropped(g, v) == g

\* lines 46-47: if v not in self.adj: self.adj[v] = []
EnsureKey(g, v) == IF v \notin DOMAIN g THEN g @@ (v :> <<>>) ELSE g

\* Faulty variant of Mirror: a self-loop is not stored a second time.
MirrorSkipSelfLoop(g, u, v, w, undirected) ==
    IF undirected /\ u # v THEN AppendTo(g, v, <<u, Float(w)>>) ELSE g

\* lines 48-49: if undirected: self.adj[v].append((u, float(w)))
Mirror(g, u, v, w, undirected) ==
    IF undirected THEN AppendTo(g, v, <<u, Float(w)>>) ELSE g

\* The adjacency mapping after the body of add_edge past its weight test (lines 44-49).
AddEdgeOp(g, u, v, w, undirected) ==
    Mirror(EnsureKey(AppendTo(g, u, <<v, Float(w)>>), v), u, v, w, undirected)

\* Faulty variant of AddEdgeCall: u->v is appended before the weight is tested.
AddEdgeLateCheck(g, u, v, w, undirected) ==
    IF w < 0
    THEN [adj |-> AppendTo(g, u, <<v, Float(w)>>), err |-> "ValueError"]
    ELSE [adj |-> AddEdgeOp(g, u, v, w, undirected), err |-> "none"]

\* Graph.add_edge (lines 37-49): the mapping it leaves and the error it raises.
AddEdgeCall(g, u, v, w, undirected) ==
    IF w < 0
    THEN [adj |-> g, err |-> "ValueError"]
    ELSE [adj |-> AddEdgeOp(g, u, v, w, undirected), err |-> "none"]

\* demo_graph's edge list, "A".."E" as 1..5.
DemoEdges ==
    << <<1, 2, 4>>, <<1, 3, 2>>, <<2, 3, 1>>, <<2, 4, 5>>,
       <<3, 4, 8>>, <<3, 5, 10>>, <<4, 5, 2>>, <<2, 5, 6>> >>

\* demo_graph's loop: add_edge for every edge of the list, in order.
RECURSIVE AddAll(_, _, _)
AddAll(g, edges, undirected) ==
    IF edges = <<>> THEN g
    ELSE LET e == Head(edges)
         IN AddAll(AddEdgeCall(g, e[1], e[2], e[3], undirected).adj, Tail(edges), undirected)

\* Faulty variant of demo_graph: the flag is not passed on to add_edge.
demo_graph_directed(undirected) == AddAll(EmptyMap, DemoEdges, FALSE)

\* demo_graph(undirected) (lines 118-136).
demo_graph(undirected) == AddAll(EmptyMap, DemoEdges, undirected)

\* dist[k] = x / prev[k] = x on a plain dict: the key is created when missing.
DictSet(d, k, x) == [y \in DOMAIN d \cup {k} |-> IF y = k THEN x ELSE d[y]]

\* Faulty variant of SourceKnown: the test of line 61 always passes.
SourceAlwaysKnown(g, s) == TRUE

\* line 61: source in self.adj (a membership test creates no key).
SourceKnown(g, s) == s \in DOMAIN g

\* Faulty variant of IsStale: no popped entry is skipped.
NeverStale(dist, u, d_u) == FALSE

\* line 71: if d_u != dist[u]
IsStale(dist, u, d_u) == d_u # dist[u]

\* Faulty variant of InitDist: 0.0 instead of infinity.
InitDistZero(g) == [k \in DOMAIN g |-> Fin(0)]

\* line 59: dist = {u: float('inf') for u in self.adj}
InitDist(g) == [k \in DOMAIN g |-> Inf]

\* line 60: prev = {u: None for u in self.adj}
InitPrev(g) == [k \in DOMAIN g |-> None]

\* Faulty variant of RelaxEdge: only the first estimate of a vertex is
\* accepted ("if dist[v] == inf" for "if alt < dist[v]").
RelaxFirstOnly(dist, prev, heap, u, d_u, v, w) ==
    LET alt == DAdd(d_u, w)
    IN IF dist[v] = Inf
       THEN [dist |-> DictSet(dist, v, alt),
             prev |-> DictSet(prev, v, u),
             heap |-> HeapPush(heap, <<alt, v>>)]
       ELSE [dist |-> dist, prev |-> prev, heap |-> heap]

\* Faulty variant of RelaxEdge: a predecessor is recorded only for a vertex
\* that has none (prev[v] = u guarded by "prev[v] is None").
RelaxKeepPrev(dist, prev, heap, u, d_u, v, w) ==
    LET alt == DAdd(d_u, w)
    IN IF DLess(alt, dist[v])
       THEN [dist |-> DictSet(dist, v, alt),
             prev |-> IF prev[v] = None THEN DictSet(prev, v, u) ELSE prev,
             heap |-> HeapPush(heap, <<alt, v>>)]
       ELSE [dist |-> dist, prev |-> prev, heap |-> heap]

\* Faulty variant of RelaxEdge: the entry pushed carries the distance of u
\* (heappush(heap, (d_u, v)) for heappush(heap, (alt, v))).
RelaxPushesParent(dist, prev, heap, u, d_u, v, w) ==
    LET alt == DAdd(d_u, w)
    IN IF DLess(alt, dist[v])
       THEN [dist |-> DictSet(dist, v, alt),
             prev |-> DictSet(prev, v, u),
             heap |-> HeapPush(heap, <<d_u, v>>)]
       ELSE [dist |-> dist, prev |-> prev, heap |-> heap]

\* Faulty variant of RelaxEdge: an equal estimate is accepted as well
\* ("if alt <= dist[v]" for "if alt < dist[v]").
RelaxNonStrict(dist, prev, heap, u, d_u, v, w) ==
    LET alt == DAdd(d_u, w)
    IN IF ~DLess(dist[v], alt)
       THEN [dist |-> DictSet(dist, v, alt),
             prev |-> DictSet(prev, v, u),
             heap |-> HeapPush(heap, <<alt, v>>)]
       ELSE [dist |-> dist, prev |-> prev, heap |-> heap]

\* The body of the for loop for one entry (v, w) of self.adj[u] (lines 76-81).
RelaxEdge(dist, prev, heap, u, d_u, v, w) ==
    LET alt == DAdd(d_u, w)
    IN IF DLess(alt, dist[v])
       THEN [dist |-> DictSet(dist, v, alt),
             prev |-> DictSet(prev, v, u),
             heap |-> HeapPush(heap, <<alt, v>>)]
       ELSE [dist |-> dist, prev |-> prev, heap |-> heap]

\* The for loop of lines 75-81 from entry k of g[u] on; st holds dist, prev, heap.
RECURSIVE RelaxAll(_, _, _, _, _)
RelaxAll(g, st, u, d_u, k) ==
    IF k > Len(g[u]) THEN st
    ELSE RelaxAll(g, RelaxEdge(st.dist, st.prev, st.heap, u, d_u, g[u][k][1], g[u][k][2]),
                  u, d_u, k + 1)

\* The while loop of lines 68-81, run until the heap is empty.
RECURSIVE MainLoop(_, _)
MainLoop(g, st) ==
    IF st.heap = <<>> THEN st
    ELSE LET e == HeapPop(st.heap).item
             popped == [st EXCEPT !.heap = HeapPop(st.heap).heap]
         IN IF IsStale(st.dist, e[2], e[1])
            THEN MainLoop(g, popped)
            ELSE MainLoop(g, RelaxAll(g, popped, e[2], e[1], 1))

\* Graph.dijkstra(source) for a known source as one function of the graph
\* and the source (lines 51-83): the maps it returns.
dijkstra(g, s) ==
    MainLoop(g, [dist |-> DictSet(InitDist(g), s, Fin(0)),
                 prev |-> InitPrev(g),
                 heap |-> << <<Fin(0), s>> >>])

\* reconstruct_path's loop (lines 94-97): path.append(cur); cur = prev[cur].
RECURSIVE WalkBack(_, _, _)
WalkBack(p, cur, acc) ==
    IF cur = None THEN acc ELSE WalkBack(p, p[cur], Append(acc, cur))

\* Faulty variant of Reverse: path.reverse() left out.
NoReverse(s) == s

\* line 98: path.reverse()
Reverse(s) == [k \in 1..Len(s) |-> s[Len(s) + 1 - k]]

\* Faulty variant of reconstruct_path: no empty result for a target outside prev.
ReconstructNoGuard(p, t) ==
    IF t \notin DOMAIN p THEN <<t>> ELSE Reverse(WalkBack(p, t, <<>>))

\* Graph.reconstruct_path (lines 85-99).
reconstruct_path(p, t) ==
    IF t \notin DOMAIN p THEN <<>> ELSE Reverse(WalkBack(p, t, <<>>))

\* Number of stored adjacency entries.
RECURSIVE SumLen(_, _)
SumLen(g, ks) ==
    IF ks = {} THEN 0
    ELSE LET k == CHOOSE x \in ks : TRUE IN Len(g[k]) + SumLen(g, ks \ {k})
NumEntries(g) == SumLen(g, DOMAIN g)

VARIABLES adj, pc, op, err, source, dist, prev, heap, u, d_u, i, target, path,
          calls, expanded, pushes

\* calls, expanded and pushes record the history of the calls and change
\* nothing the code does: calls counts the dijkstra calls on the graph since
\* it last changed, expanded lists the entries <<d_u, u>> the current run
\* popped and did not skip, pushes counts the entries the current run put
\* on the heap, line 66's included.
vars == <<adj, pc, op, err, source, dist, prev, heap, u, d_u, i, target, path,
          calls, expanded, pushes>>
runVars == <<source, dist, prev, heap, u, d_u, i>>
pathVars == <<target, path>>
histVars == <<calls, expanded, pushes>>

\* The records stop growing one past what a run on graph g can need, so that
\* a run that never ends still has finitely many states.
MaxExpanded(g) == Cardinality(DOMAIN g) + 1
MaxPushes(g) == NumEntries(g) + 2

Init ==
    /\ adj = EmptyMap
    /\ pc = "idle"
    /\ op = "Graph"
    /\ err = "none"
    /\ source = None
    /\ dist = EmptyMap
    /\ prev = EmptyMap
    /\ heap = <<>>
    /\ u = None
    /\ d_u = Inf
    /\ i = 0
    /\ target = None
    /\ path = <<>>
    /\ calls = 0
    /\ expanded = <<>>
    /\ pushes = 0

\* ---------------------------------------------------------------- actions
\* A caller's add_edge(u, v, w, undirected) while the graph is being built.
AddEdge ==
    /\ pc = "idle"
    /\ \E e \in Vertices \X Vertices \X Weights, undirected \in BOOLEAN :
        /\ NumEntries(adj) + (IF undirected THEN 2 ELSE 1) <= MaxEntries
        /\ LET r == AddEdgeCall(adj, e[1], e[2], e[3], undirected)
           IN /\ adj' = r.adj
              /\ err' = r.err
    /\ op' = "add_edge"
    /\ calls' = IF adj' = adj THEN calls ELSE 0
    /\ UNCHANGED <<pc, runVars, pathVars, expanded, pushes>>

\* g = demo_graph(undirected): a fresh Graph filled from the demo's edge list.
DemoGraph ==
    /\ pc = "idle"
    /\ adj = EmptyMap
    /\ \E undirected \in BOOLEAN : adj' = demo_graph(undirected)
    /\ op' = "demo_graph"
    /\ err' = "none"
    /\ calls' = 0
    /\ UNCHANGED <<pc, runVars, pathVars, expanded, pushes>>

\* Faulty variant of DijkstraCall: dist is kept from the call before
\* (a map held by the object and not rebuilt by line 59).
DijkstraCallKeepsDist ==
    /\ pc \in {"idle", "done"}
    /\ calls < MaxCalls
    /\ \E s \in Vertices \cup DOMAIN adj :
        LET dist0 == IF pc = "done" THEN dist ELSE InitDist(adj)
            prev0 == InitPrev(adj)
        IN /\ source' = s
           /\ IF ~SourceKnown(adj, s)
              THEN /\ err' = "KeyError"
                   /\ pc' = "idle"
                   /\ dist' = EmptyMap
                   /\ prev' = EmptyMap
                   /\ heap' = <<>>
                   /\ pushes' = 0
              ELSE /\ err' = "none"
                   /\ pc' = "while"
                   /\ dist' = DictSet(dist0, s, Fin(0))
                   /\ prev' = prev0
                   /\ heap' = << <<Fin(0), s>> >>
                   /\ pushes' = 1
    /\ op' = "dijkstra"
    /\ calls' = calls + 1
    /\ expanded' = <<>>
    /\ u' = None
    /\ d_u' = Inf
    /\ i' = 0
    /\ target' = None
    /\ path' = <<>>
    /\ UNCHANGED adj

\* dijkstra(source) up to the loop (lines 59-66).
DijkstraCall ==
    /\ pc \in {"idle", "done"}
    /\ calls < MaxCalls
    /\ \E s \in Vertices \cup DOMAIN adj :
        LET dist0 == InitDist(adj)
            prev0 == InitPrev(adj)
        IN /\ source' = s
           /\ IF ~SourceKnown(adj, s)
              THEN /\ err' = "KeyError"
                   /\ pc' = "idle"
                   /\ dist' = EmptyMap
                   /\ prev' = EmptyMap
                   /\ heap' = <<>>
                   /\ pushes' = 0
              ELSE /\ err' = "none"
                   /\ pc' = "while"
                   /\ dist' = DictSet(dist0, s, Fin(0))
                   /\ prev' = prev0
                   /\ heap' = << <<Fin(0), s>> >>
                   /\ pushes' = 1
    /\ op' = "dijkstra"
    /\ calls' = calls + 1
    /\ expanded' = <<>>
    /\ u' = None
    /\ d_u' = Inf
    /\ i' = 0
    /\ target' = None
    /\ path' = <<>>
    /\ UNCHANGED adj

\* One test of "while heap" that finds an entry: heappop, the stale test, and
\* the start of the for loop, whose self.adj[u] is a defaultdict lookup (lines 68-75).
Pop ==
    /\ pc = "while"
    /\ heap # <<>>
    /\ LET e == HeapPop(heap).item
       IN /\ d_u' = e[1]
          /\ u' = e[2]
          /\ heap' = HeapPop(heap).heap
          /\ IF IsStale(dist, e[2], e[1])
             THEN /\ pc' = "while"
                  /\ adj' = adj
                  /\ expanded' = expanded
             ELSE /\ adj' = Touch(adj, e[2])
                  /\ pc' = IF Len(adj'[e[2]]) = 0 THEN "while" ELSE "for"
                  /\ expanded' = IF Len(expanded) < MaxExpanded(adj)
                                 THEN Append(expanded, e)
                                 ELSE expanded
    /\ i' = IF pc' = "for" THEN 1 ELSE 0
    /\ UNCHANGED <<op, err, source, dist, prev, pathVars, calls, pushes>>

\* One iteration of "for v, w in self.adj[u]" (lines 75-81); dist[v] on a
\* key the plain dict lacks raises KeyError out of dijkstra.
Relax ==
    /\ pc = "for"
    /\ LET v == adj[u][i][1]
           w == adj[u][i][2]
           r == RelaxEdge(dist, prev, heap, u, d_u, v, w)
       IN IF v \notin DOMAIN dist
          THEN /\ err' = "KeyError"
               /\ pc' = "idle"
               /\ dist' = EmptyMap
               /\ prev' = EmptyMap
               /\ heap' = <<>>
               /\ u' = None
               /\ d_u' = Inf
               /\ i' = 0
               /\ expanded' = <<>>
               /\ pushes' = 0
          ELSE /\ dist' = r.dist
               /\ prev' = r.prev
               /\ heap' = r.heap
               /\ IF i < Len(adj[u])
                  THEN /\ i' = i + 1
                       /\ pc' = "for"
                  ELSE /\ i' = 0
                       /\ pc' = "while"
               /\ pushes' = IF Len(r.heap) > Len(heap) /\ pushes < MaxPushes(adj)
                             THEN pushes + 1
                             ELSE pushes
               /\ UNCHANGED <<err, u, d_u, expanded>>
    /\ UNCHANGED <<adj, op, source, pathVars, calls>>

\* "while heap" on the empty heap: return dist, prev (lines 68, 83).
Return ==
    /\ pc = "while"
    /\ heap = <<>>
    /\ pc' = "done"
    /\ u' = None
    /\ d_u' = Inf
    /\ UNCHANGED <<adj, op, err, source, dist, prev, heap, i, pathVars, histVars>>

\* Graph.reconstruct_path(prev, target) on the maps dijkstra returned.
ReconstructPath ==
    /\ pc = "done"
    /\ \E t \in Vertices \cup DOMAIN adj :
        /\ target' = t
        /\ path' = reconstruct_path(prev, t)
    /\ op' = "reconstruct_path"
    /\ err' = "none"
    /\ UNCHANGED <<adj, pc, runVars, histVars>>

Next ==
    \/ AddEdge
    \/ DemoGraph
    \/ DijkstraCall
    \/ Pop
    \/ Relax
    \/ Return
    \/ ReconstructPath

Spec == Init /\ [][Next]_vars

\* ------------------------------------------------- reference definitions
\* Brute force over paths: the pairs <<end vertex, total weight>> of every
\* walk from s that follows at most k stored adjacency entries.  Every entry
\* is followed on its own, so parallel edges give separate walks.
RECURSIVE PathEnds(_, _, _)
PathEnds(g, s, k) ==
    IF k = 0 THEN {<<s, 0>>}
    ELSE LET P == PathEnds(g, s, k - 1)
         IN P \cup UNION { { <<g[p[1]][j][1], p[2] + g[p[1]][j][2]>> :
                              j \in 1..Len(g[p[1]]) } : p \in P }

\* Total weights of the walks from s to v.  A walk of more edges than there
\* are vertices repeats a vertex, and dropping the cycle does not add weight.
PathWeights(g, s, v) ==
    { p[2] : p \in { q \in PathEnds(g, s, Cardinality(DOMAIN g)) : q[1] = v } }

Reachable(g, s, v) == PathWeights(g, s, v) # {}

\* The minimum total weight over all paths from s to v, +infinity without one.
MinDist(g, s, v) ==
    LET T == PathWeights(g, s, v)
    IN IF T = {} THEN Inf ELSE Fin(CHOOSE t \in T : \A x \in T : t <= x)

\* Total weights of the routes that visit the vertices of p in order, one
\* stored entry per hop (the empty set when a hop has no stored entry).
RECURSIVE RouteWeights(_, _)
RouteWeights(g, p) ==
    IF Len(p) <= 1 THEN {0}
    ELSE LET hop == IF p[1] \in DOMAIN g
                    THEN { g[p[1]][j][2] : j \in { x \in 1..Len(g[p[1]]) : g[p[1]][x][1] = p[2] } }
                    ELSE {}
         IN { a + b : a \in hop, b \in RouteWeights(g, Tail(p)) }

\* The demo run the scenario describes: demo_graph(undirected=True), source "A".
DemoRunDone == adj = demo_graph(TRUE) /\ pc = "done" /\ source = 1

\* ----------------------------------------------------------------- claims
\* C1: when dijkstra has returned, dist[v] is the minimum total weight over
\* all source-to-v paths for every reachable v, on every graph add_edge can
\* build (parallel edges, self-loops and zero weights included).
C1_ShortestDistances ==
    pc = "done" =>
        \A v \in DOMAIN adj :
            Reachable(adj, source, v) =>
                v \in DOMAIN dist /\ dist[v] = MinDist(adj, source, v)

\* C1 witness: u->v stored twice, weight 2 first and weight 1 second, and the
\* returned distance of the hop is 1.
C1_Witness ==
    /\ pc = "done"
    /\ source = 1
    /\ adj = (1 :> << <<2, 2>>, <<2, 1>> >> @@ 2 :> <<>>)
    /\ dist[2] = Fin(1)

\* C2 as stated: on the undirected demo graph dijkstra from A returns
\* A=0, B=3, C=2, D=8, E=10.
C2_Original ==
    DemoRunDone =>
        dist = (1 :> Fin(0) @@ 2 :> Fin(3) @@ 3 :> Fin(2) @@ 4 :> Fin(8) @@ 5 :> Fin(10))

\* C2 amended: on the undirected demo graph dijkstra from A returns
\* A=0, B=3, C=2, D=8, E=9 (E by A-C-B-E: 2+1+6).
C2_DemoDistances ==
    DemoRunDone =>
        dist = (1 :> Fin(0) @@ 2 :> Fin(3) @@ 3 :> Fin(2) @@ 4 :> Fin(8) @@ 5 :> Fin(9))

\* C2 witness: the demo run has returned and E's distance is below 10.
C2_Witness == DemoRunDone /\ DLess(dist[5], Fin(10))

\* C3 as stated: on the undirected demo graph with source A,
\* reconstruct_path(prev, E) is [A, C, B, D, E] or another A-to-E route of
\* total weight 10.
C3_Original ==
    (DemoRunDone /\ op = "reconstruct_path" /\ target = 5) =>
        \/ path = <<1, 3, 2, 4, 5>>
        \/ /\ Len(path) >= 1
           /\ path[1] = 1
           /\ path[Len(path)] = 5
           /\ 10 \in RouteWeights(adj, path)

\* C3 amended: on the undirected demo graph with source A,
\* reconstruct_path(prev, E) is [A, C, B, E], of total weight 9.
C3_DemoPath ==
    (DemoRunDone /\ op = "reconstruct_path" /\ target = 5) =>
        path = <<1, 3, 2, 5>> /\ RouteWeights(adj, path) = {9}

\* C3 witness: reconstruct_path(prev, E) has returned on the demo run.
C3_Witness ==
    DemoRunDone /\ op = "reconstruct_path" /\ target = 5 /\ Len(path) = 4

\* A step that is a call of add_edge, of dijkstra, of reconstruct_path: op
\* names the most recent call, and calls are made only between runs.
AddEdgeStep == pc = "idle" /\ op' = "add_edge"
DijkstraStep == pc \in {"idle", "done"} /\ op' = "dijkstra"
ReconstructStep == pc = "done" /\ op' = "reconstruct_path"

\* C4: an add_edge call that fails on a negative weight leaves the adjacency
\* mapping as it was: no entry appended in either direction, no key created.
C4_RejectedEdgeLeavesGraph ==
    [][(AddEdgeStep /\ err' = "ValueError") =>
          (adj' = adj /\ DOMAIN adj' = DOMAIN adj /\ NumEntries(adj') = NumEntries(adj))]_vars

\* C4 witness: add_edge has just been rejected on a graph that stores an
\* edge and still lacks a vertex the callers draw from.
C4_Witness ==
    /\ op = "add_edge"
    /\ err = "ValueError"
    /\ NumEntries(adj) >= 1
    /\ DOMAIN adj # Vertices

\* C5: dijkstra(source) with a source that is no key of the adjacency mapping
\* raises KeyError before the loop, returns no maps and leaves the graph as it
\* was; the source is still no key afterwards, so the next call fails as well.
C5_UnknownSourceFails ==
    [][(DijkstraStep /\ source' \notin DOMAIN adj) =>
          /\ err' = "KeyError"
          /\ pc' = "idle"
          /\ dist' = EmptyMap
          /\ prev' = EmptyMap
          /\ heap' = <<>>
          /\ adj' = adj
          /\ source' \notin DOMAIN adj']_vars

\* C5 witness: dijkstra has just failed on a graph that stores an edge.
C5_Witness ==
    /\ op = "dijkstra"
    /\ err = "KeyError"
    /\ pc = "idle"
    /\ NumEntries(adj) >= 1
    /\ source \notin DOMAIN adj

C7_PathOfShortestWeight ==
    pc = "done" =>
        /\ \A v \in DOMAIN adj :
              Reachable(adj, source, v) =>
                  LET p == reconstruct_path(prev, v)
                  IN /\ Len(p) >= 1
                     /\ p[1] = source
                     /\ p[Len(p)] = v
                     /\ dist[p[1]] = Fin(0)
                     /\ \A k \in 1..(Len(p) - 1) :
                           \E j \in 1..Len(adj[p[k]]) :
                              /\ adj[p[k]][j][1] = p[k + 1]
                              /\ dist[p[k + 1]] = DAdd(dist[p[k]], adj[p[k]][j][2])
                     /\ dist[v].val \in RouteWeights(adj, p)
                     /\ (v = source => p = <<source>>)
        /\ (op = "reconstruct_path" /\ Reachable(adj, source, target)) =>
              path = reconstruct_path(prev, target)

\* C7 witness: reconstruct_path has returned a path of three vertices whose
\* middle hop is stored twice with different weights.
C7_Witness ==
    /\ pc = "done"
    /\ op = "reconstruct_path"
    /\ Len(path) = 3
    /\ path[1] = source
    /\ Cardinality(RouteWeights(adj, path)) >= 2

\* C8: reconstruct_path(prev, target) with a target that is no key of prev
\* returns the empty sequence and leaves prev as it was.
C8_UnknownTargetEmpty ==
    [][ReconstructStep =>
          /\ prev' = prev
          /\ (target' \notin DOMAIN prev => path' = <<>>)]_vars

\* C8 witness: reconstruct_path has returned [] for a target outside a
\* predecessor map that has keys.
C8_Witness ==
    /\ op = "reconstruct_path"
    /\ target \notin DOMAIN prev
    /\ DOMAIN prev # {}
    /\ path = <<>>

\* C9 as stated (the docstring of reconstruct_path): reconstruct_path(prev,
\* target) is the empty list whenever no path from the source to target
\* exists, a known but unreachable target included.
C9_Docstring ==
    (pc = "done" /\ op = "reconstruct_path" /\ ~Reachable(adj, source, target)) =>
        path = <<>>

\* Every neighbour stored in an adjacency list is a key of the mapping.
NeighborsAreKeys ==
    \A a \in DOMAIN adj : \A j \in 1..Len(adj[a]) : adj[a][j][1] \in DOMAIN adj

\* The lookups of a run hit existing keys: dist[u] of a heap entry,
\* self.adj[u] of the expanded vertex, dist[v] and prev[v] of a neighbour.
RunLookupsHit ==
    /\ pc \in {"while", "for"} =>
          /\ DOMAIN dist = DOMAIN adj
          /\ DOMAIN prev = DOMAIN adj
          /\ \A k \in 1..Len(heap) : heap[k][2] \in DOMAIN dist
    /\ pc = "for" =>
          /\ u \in DOMAIN adj
          /\ i \in 1..Len(adj[u])
          /\ adj[u][i][1] \in DOMAIN dist \cap DOMAIN prev
    /\ (op = "dijkstra" /\ err = "KeyError") => source \notin DOMAIN adj

\* C10: keys are never removed and add_edge leaves both endpoints as keys, so
\* in every state every stored neighbour is a key, and the relaxation loop of
\* dijkstra looks up only vertices that dist and prev hold.
C10_EndpointsAreKeys ==
    /\ [](NeighborsAreKeys /\ RunLookupsHit)
    /\ [][DOMAIN adj \subseteq DOMAIN adj']_vars

\* C10 witness: the loop is about to relax an entry whose neighbour has no
\* outgoing edges, a key only because add_edge created it for v.
C10_Witness ==
    /\ pc = "for"
    /\ adj[u][i][1] \in DOMAIN adj
    /\ adj[adj[u][i][1]] = <<>>

\* C11: from every graph and for all u, v and w >= 0, add_edge(u, v, w,
\* undirected=True) leaves the adjacency mapping that add_edge(u, v, w)
\* followed by add_edge(v, u, w) leaves (same keys, same lists in the same
\* order), u = v and unknown u or v included.
C11_UndirectedIsTwoDirected ==
    pc = "idle" =>
        \A a \in Vertices, b \in Vertices, w \in 0..MaxWeight :
            LET once == AddEdgeCall(adj, a, b, w, TRUE)
                first == AddEdgeCall(adj, a, b, w, FALSE)
                second == AddEdgeCall(first.adj, b, a, w, FALSE)
            IN /\ once.err = "none"
               /\ first.err = "none"
               /\ second.err = "none"
               /\ once.adj = second.adj
               /\ DOMAIN once.adj = DOMAIN adj \cup {a, b}

\* C11 witness: add_edge has left a graph whose only vertex holds the same
\* self-loop twice, the result of one undirected call on the empty graph.
C11_Witness ==
    /\ op = "add_edge"
    /\ err = "none"
    /\ \E a \in Vertices :
          /\ DOMAIN adj = {a}
          /\ adj[a] = << <<a, 1>>, <<a, 1>> >>
    /\ adj = AddEdgeCall(EmptyMap, CHOOSE a \in DOMAIN adj : TRUE,
                         CHOOSE a \in DOMAIN adj : TRUE, 1, TRUE).adj

\* C12: no step of a dijkstra call changes the adjacency mapping: not the
\* call that fails, not the start of a run, not a pop, not a relaxation, not
\* the return.
C12_DijkstraLeavesGraph ==
    [][(DijkstraStep \/ pc \in {"while", "for"}) => adj' = adj]_vars

\* C12 witness: a run that expanded three vertices has returned.
C12_Witness ==
    /\ pc = "done"
    /\ Len(expanded) >= 3
    /\ NumEntries(adj) >= 2

\* C13: the maps a dijkstra call returns are one function of the graph and
\* the source, whichever calls were made on the graph before: a second call
\* with the same source returns the maps of the first, and a call after a
\* call with another source returns what it returns as a first call.
C13_ResultOfGraphAndSource ==
    pc = "done" =>
        LET r == dijkstra(adj, source)
        IN dist = r.dist /\ prev = r.prev

\* C13 witness: the second dijkstra call on a graph has returned.
C13_Witness ==
    /\ pc = "done"
    /\ calls = 2
    /\ NumEntries(adj) >= 2
    /\ \E v \in DOMAIN prev : prev[v] # None

\* The orders in which the entries of a list s can stand.
Perms(s) ==
    { [k \in 1..Len(s) |-> s[f[k]]] :
        f \in { h \in [1..Len(s) -> 1..Len(s)] :
                  \A a \in 1..Len(s), b \in 1..Len(s) : h[a] = h[b] => a = b } }

\* The graphs with the keys ks of g whose lists hold the entries of g's
\* lists in some order.
RECURSIVE ListOrders(_, _)
ListOrders(g, ks) ==
    IF ks = {} THEN {EmptyMap}
    ELSE LET k == CHOOSE x \in ks : TRUE
         IN { (k :> p) @@ r : p \in Perms(g[k]), r \in ListOrders(g, ks \ {k}) }

\* The graph the same add_edge calls leave when issued in reverse order:
\* every list reversed.
ReversedCalls(g) == [k \in DOMAIN g |-> Reverse(g[k])]

\* Adjacency mappings that the add_edge calls behind g leave in other orders.
\* A call appends fixed entries to fixed lists, so another order of the calls
\* only reorders entries inside the lists.  All orders of every list are
\* taken for the graphs add_edge builds here; for the larger demo graph the
\* reverse order of its calls is taken.
OtherOrders(g) ==
    {ReversedCalls(g)} \cup
        (IF NumEntries(g) <= MaxEntries + 1 THEN ListOrders(g, DOMAIN g) ELSE {})

\* C14: the distance map dijkstra returns is the one it returns on every
\* graph that the same add_edge calls leave when issued in another order.
C14_OrderIndependentDistances ==
    pc = "done" =>
        \A g \in OtherOrders(adj) : dijkstra(g, source).dist = dist

\* C14 witness: a run has returned on a graph that another order of its
\* calls stores differently, with a vertex reached over two hops.
C14_Witness ==
    /\ pc = "done"
    /\ \E g \in OtherOrders(adj) : g # adj
    /\ \E v \in DOMAIN prev : prev[v] \notin {None, source}

\* The vertex reached from v by following n predecessor links, None once a
\* link is None.
RECURSIVE Back(_, _, _)
Back(p, v, n) ==
    IF n = 0 \/ v = None THEN v ELSE Back(p, p[v], n - 1)

\* C15: in every state of a run and in the maps it returns, prev[source] is
\* None, following prev from a vertex with a finite distance reaches the
\* source in at most (number of vertices - 1) steps, and following prev from
\* any key ends at None within (number of vertices) steps, so
\* reconstruct_path ends on every key.
C15_PrevHasNoCycle ==
    pc \in {"while", "for", "done"} =>
        LET n == Cardinality(DOMAIN prev)
        IN /\ prev[source] = None
           /\ \A v \in DOMAIN prev :
                 /\ Back(prev, v, n) = None
                 /\ ~dist[v].inf => \E k \in 0..(n - 1) : Back(prev, v, k) = source
           /\ pc = "done" =>
                 \A v \in DOMAIN prev : Len(reconstruct_path(prev, v)) \in 1..n

\* C15 witness: a run has returned on a graph with a cycle of zero weight
\* through the source, with some vertex two links away from the source.
C15_Witness ==
    /\ pc = "done"
    /\ \E j \in 1..Len(adj[source]) :
          /\ adj[source][j][2] = 0
          /\ adj[source][j][1] # source
          /\ <<source, 0>> \in PathEnds(adj, adj[source][j][1], Cardinality(DOMAIN adj))
    /\ \E v \in DOMAIN prev : prev[v] \notin {None, source}

\* dijkstra runs to completion once called: the sequential code takes its
\* next step whenever it has one.
SpecFair == Spec /\ WF_vars(Pop) /\ WF_vars(Relax) /\ WF_vars(Return)

\* C16: every run of dijkstra on a known source empties the heap and
\* returns: a run in its loop always leads to the return.
C16_RunReturns == (pc \in {"while", "for"}) ~> (pc = "done")

\* C16 witness: a run has returned on a graph with a zero-weight cycle
\* through the source whose first hop is stored twice.
C16_Witness ==
    /\ pc = "done"
    /\ Len(adj[source]) >= 2
    /\ adj[source][1] = adj[source][2]
    /\ adj[source][1][2] = 0
    /\ adj[source][1][1] # source
    /\ <<source, 0>> \in PathEnds(adj, adj[source][1][1], Cardinality(DOMAIN adj))

\* In a run: between the call and the return.
InRun == pc \in {"while", "for"}

\* C17: every entry <<d, v>> popped and not skipped has d = dist[v] equal to
\* the minimum total weight of the source-to-v paths, then and in every later
\* state of the run and in its result; no later step changes dist[v] or
\* prev[v]; and the distances of these pops never decrease from one to the
\* next.
C17_PoppedIsFinal ==
    /\ [](pc \in {"while", "for", "done"} =>
            \A k \in 1..Len(expanded) :
               LET d == expanded[k][1]
                   v == expanded[k][2]
               IN /\ dist[v] = d
                  /\ d = MinDist(adj, source, v)
                  /\ k > 1 => ~DLess(d, expanded[k - 1][1]))
    /\ [][InRun =>
            \A k \in 1..Len(expanded) :
               /\ dist'[expanded[k][2]] = dist[expanded[k][2]]
               /\ prev'[expanded[k][2]] = prev[expanded[k][2]]]_vars

\* C17 witness: a vertex has just been popped and not skipped while an older
\* entry of it, of a larger distance, is still on the heap.
C17_Witness ==
    /\ InRun
    /\ Len(expanded) >= 2
    /\ expanded[Len(expanded)] = <<d_u, u>>
    /\ \E k \in 1..Len(heap) : heap[k][2] = u /\ DLess(d_u, heap[k][1])

\* C18: in every state of a run every heap entry (d, v) has d >= dist[v], so
\* the entry popped next is skipped by the code's test d != dist[u] exactly
\* when d > dist[u].
C18_StaleMeansGreater ==
    InRun =>
        /\ \A k \in 1..Len(heap) : ~DLess(heap[k][1], dist[heap[k][2]])
        /\ heap # <<>> =>
              LET e == HeapPop(heap).item
              IN IsStale(dist, e[2], e[1]) <=> DLess(dist[e[2]], e[1])

\* C18 witness: the entry to be popped next is stale.
C18_Witness ==
    /\ pc = "while"
    /\ heap # <<>>
    /\ DLess(dist[heap[1][2]], heap[1][1])

\* C19: in every state of a run and in its result no vertex stands twice
\* among the entries popped and not skipped, there are at most as many of
\* them as vertices, and the run has pushed at most 1 + (number of stored
\* adjacency entries) entries, line 66's included.
C19_ExpandedOnce ==
    pc \in {"while", "for", "done"} =>
        /\ \A j \in 1..Len(expanded), k \in 1..Len(expanded) :
              expanded[j][2] = expanded[k][2] => j = k
        /\ Len(expanded) <= Cardinality(DOMAIN adj)
        /\ pushes <= 1 + NumEntries(adj)
        /\ Len(heap) + Len(expanded) <= pushes

\* C19 witness: a run has returned that pushed an entry for every stored
\* adjacency entry, some of them skipped when popped.
C19_Witness ==
    /\ pc = "done"
    /\ NumEntries(adj) >= 3
    /\ pushes = 1 + NumEntries(adj)
    /\ Len(expanded) < pushes

\* C20: in every state of a run, taken between two loop iterations, and in
\* its result, every v with prev[v] = a not None has a stored entry (v, w)
\* in adj[a] with dist[v] = dist[a] + w and dist[a] finite; and in the
\* result prev[v] is None exactly when v is the source or dist[v] is
\* +infinity.
C20_PrevMatchesDist ==
    pc \in {"while", "for", "done"} =>
        /\ \A v \in DOMAIN prev :
              prev[v] # None =>
                 /\ prev[v] \in DOMAIN adj
                 /\ ~dist[prev[v]].inf
                 /\ \E j \in 1..Len(adj[prev[v]]) :
                       /\ adj[prev[v]][j][1] = v
                       /\ dist[v] = DAdd(dist[prev[v]], adj[prev[v]][j][2])
        /\ pc = "done" =>
              \A v \in DOMAIN prev : (prev[v] = None) <=> (v = source \/ dist[v].inf)

\* C20 witness: in the middle of a run a vertex has a predecessor that is
\* not the source, after its first predecessor was replaced.
C20_Witness ==
    /\ pc = "for"
    /\ \E v \in DOMAIN prev :
          /\ prev[v] \notin {None, source}
          /\ \E j \in 1..Len(adj[source]) : adj[source][j][1] = v
          /\ \E k \in 1..Len(heap) : heap[k][2] = v /\ DLess(dist[v], heap[k][1])

====
